---- MODULE Spec2Model ----
(***************************************************************************)
(* A model of the PDF authenticity checker of src/app.py:                  *)
(*   parse_pdf_date, check_pdf_authenticity, analyze_metadata_with_llm,    *)
(*   configure_gemini and the rerun loop of main.                          *)
(*                                                                         *)
(* Python strings are TLA+ strings.  A Python value that may be None is a  *)
(* sequence of length at most one: None is << >> and the string s is       *)
(* << s >>, so that None differs from "" and from the text "None".         *)
(***************************************************************************)
EXTENDS Integers, Sequences, FiniteSets, TLC

VARIABLES
    strftime_pads_year, \* the C library under datetime.strftime: does %Y zero-fill?
    parse_pc,           \* "ready" | "done": the call of parse_pdf_date
    parse_in,           \* the argument date_str of parse_pdf_date
    parse_out,          \* what parse_pdf_date returned
    clean_pc,           \* "ready" | "done": the call of clean_metadata_string
    clean_in,           \* the argument value of clean_metadata_string
    clean_out,          \* what clean_metadata_string returned
    gemini_api_key,     \* st.session_state.gemini_api_key; None while the key is not set
    text_input,         \* the text in the password box
    uploaded_file,      \* the file in the uploader, or None
    button,             \* whether the Analyze button was clicked for this run
    rendered,           \* the widgets the last run of main put on the page
    pc,                 \* where the current run of main stands; "idle" between runs
    configured,         \* configure_gemini returned True in this run
    log,                \* the calls and returns of this run, in order
    check_fault,        \* the step of check_pdf_authenticity that failed in this run
    unlink_failed,      \* os.unlink raised in this run
    temp_exists,        \* the temporary file of the latest call is on disk
    result,             \* main's local result, or None
    error,              \* main's local error, or None
    llm_fault,          \* the step of analyze_metadata_with_llm that failed
    ai_analysis,        \* main's local ai_analysis, or None
    shown               \* what the run showed last

parse_vars == << parse_pc, parse_in, parse_out >>

clean_vars == << clean_pc, clean_in, clean_out >>

session_vars == << gemini_api_key, text_input, uploaded_file, button, rendered >>

run_vars == << pc, configured, log, check_fault, unlink_failed, temp_exists, result,
               error, llm_fault, ai_analysis, shown >>

vars == << strftime_pads_year, parse_vars, clean_vars, session_vars, run_vars >>

-----------------------------------------------------------------------------
(* Bounds of the model *)

\* Longest tail that follows the sign of a generated timezone suffix.
MaxSuffixLen == 2

\* Longest generated argument of clean_metadata_string.
MaxCleanLen == 3

-----------------------------------------------------------------------------
(* Python values and string methods *)

None == << >>

Str(s) == << s >>

\* Python truthiness of an optional string: None and "" are falsy.
Truthy(v) == v # None /\ v[1] # ""

CharAt(s, i) == SubSeq(s, i, i)

startswith(s, p) == Len(s) >= Len(p) /\ SubSeq(s, 1, Len(p)) = p

endswith(s, p) == Len(s) >= Len(p) /\ SubSeq(s, Len(s) - Len(p) + 1, Len(s)) = p

\* Python's  p in s  for strings: p occurs in s as a substring.
contains(s, p) == \E i \in 1..(Len(s) - Len(p) + 1) : SubSeq(s, i, i + Len(p) - 1) = p

\* s.split(sep)[0] for a one-character sep: the text before the first sep.
split_first(s, sep) ==
    IF contains(s, sep)
    THEN LET i == CHOOSE k \in 1..Len(s) :
                      /\ CharAt(s, k) = sep
                      /\ \A j \in 1..(k - 1) : CharAt(s, j) # sep
         IN SubSeq(s, 1, i - 1)
    ELSE s

Digits == {"0", "1", "2", "3", "4", "5", "6", "7", "8", "9"}

DigitString == "0123456789"

IsDigit(c) == c \in Digits

DigitVal(c) == CHOOSE n \in 0..9 : CharAt(DigitString, n + 1) = c

DigitChar(n) == CharAt(DigitString, n + 1)

\* int(s) for a string of decimal digits, a leading blank allowed (int(" 5") = 5).
RECURSIVE int(_)
int(s) ==
    IF s = "" THEN 0
    ELSE IF CharAt(s, 1) = " " THEN int(Tail(s))
    ELSE int(SubSeq(s, 1, Len(s) - 1)) * 10 + DigitVal(CharAt(s, Len(s)))

\* Decimal digits of n >= 0, without leading zeros.
RECURSIVE Decimal(_)
Decimal(n) == IF n < 10 THEN DigitChar(n) ELSE Decimal(n \div 10) \o DigitChar(n % 10)

\* n zero-filled to at least w digits, as strftime's %m %d %H %M %S do (w = 2).
RECURSIVE ZeroFill(_, _)
ZeroFill(n, w) == IF Len(Decimal(n)) >= w THEN Decimal(n) ELSE "0" \o ZeroFill(n, w - 1)

-----------------------------------------------------------------------------
(* datetime: strptime, + timedelta, strftime, as parse_pdf_date uses them *)

IsLeap(y) == (y % 4 = 0 /\ y % 100 # 0) \/ y % 400 = 0

DaysInMonth(y, m) ==
    IF m = 2 THEN (IF IsLeap(y) THEN 29 ELSE 28)
    ELSE IF m \in {4, 6, 9, 11} THEN 30 ELSE 31

\* The directive of "%Y%m%d%H%M%S" that follows %Y, by position.
Directive == << "m", "d", "H", "M", "S" >>

\* Whether text t (one or two characters) matches the regular expression that
\* _strptime compiles for directive f:
\*   m: 1[0-2]|0[1-9]|[1-9]       d: 3[0-1]|[1-2]\d|0[1-9]|[1-9]| [1-9]
\*   H: 2[0-3]|[0-1]\d|\d         M: [0-5]\d|\d        S: 6[0-1]|[0-5]\d|\d
DirectiveMatches(f, t) ==
    LET a == CharAt(t, 1)
        b == CharAt(t, 2)
        Nonzero(c) == IsDigit(c) /\ c # "0"
    IN IF Len(t) = 1
       THEN IF f \in {"m", "d"} THEN Nonzero(a) ELSE IsDigit(a)
       ELSE CASE f = "m" -> \/ a = "1" /\ b \in {"0", "1", "2"}
                            \/ a = "0" /\ Nonzero(b)
              [] f = "d" -> \/ a = "3" /\ b \in {"0", "1"}
                            \/ a \in {"1", "2"} /\ IsDigit(b)
                            \/ a = "0" /\ Nonzero(b)
                            \/ a = " " /\ Nonzero(b)
              [] f = "H" -> \/ a = "2" /\ b \in {"0", "1", "2", "3"}
                            \/ a \in {"0", "1"} /\ IsDigit(b)
              [] f = "M" -> a \in {"0", "1", "2", "3", "4", "5"} /\ IsDigit(b)
              [] f = "S" -> \/ a = "6" /\ b \in {"0", "1"}
                            \/ a \in {"0", "1", "2", "3", "4", "5"} /\ IsDigit(b)

\* A way to cut the text after the year into the five fields: the width (1 or 2)
\* of each.
Widths == [1..5 -> {1, 2}]

FieldStart(w, i) == 5 + (IF i > 1 THEN w[1] ELSE 0) + (IF i > 2 THEN w[2] ELSE 0)
                      + (IF i > 3 THEN w[3] ELSE 0) + (IF i > 4 THEN w[4] ELSE 0)

FieldText(s, w, i) == SubSeq(s, FieldStart(w, i), FieldStart(w, i) + w[i] - 1)

\* The regular expression matches a prefix of s cut as w.
RegexMatches(s, w) ==
    /\ Len(s) >= 4
    /\ \A i \in 1..4 : IsDigit(CharAt(s, i))
    /\ \A i \in 1..5 : /\ FieldStart(w, i) + w[i] - 1 <= Len(s)
                       /\ DirectiveMatches(Directive[i], FieldText(s, w, i))

\* The order in which the backtracking matcher tries the cuts: at every field
\* the two-character alternatives come before the one-character one, and an
\* earlier field is changed last.
TryOrder(w) == (IF w[1] = 1 THEN 16 ELSE 0) + (IF w[2] = 1 THEN 8 ELSE 0)
               + (IF w[3] = 1 THEN 4 ELSE 0) + (IF w[4] = 1 THEN 2 ELSE 0)
               + (IF w[5] = 1 THEN 1 ELSE 0)

\* datetime.strptime(s, "%Y%m%d%H%M%S"): [ok |-> FALSE] stands for ValueError.
\* re.match takes the first cut that matches, in the matcher's order; text left
\* over after it is "unconverted data remains"; the datetime constructor then
\* rejects year 0, a day the month does not have, and second 60 or 61.
strptime(s) ==
    LET M == {w \in Widths : RegexMatches(s, w)}
    IN IF M = {} THEN [ok |-> FALSE]
       ELSE LET w == CHOOSE x \in M : \A y \in M : TryOrder(x) <= TryOrder(y)
                end == FieldStart(w, 5) + w[5] - 1
                year == int(SubSeq(s, 1, 4))
                month == int(FieldText(s, w, 1))
                day == int(FieldText(s, w, 2))
                second == int(FieldText(s, w, 5))
            IN IF \/ end # Len(s)
                  \/ year < 1
                  \/ day > DaysInMonth(year, month)
                  \/ second > 59
               THEN [ok |-> FALSE]
               ELSE [ok |-> TRUE, year |-> year, month |-> month, day |-> day,
                     hour |-> int(FieldText(s, w, 3)),
                     minute |-> int(FieldText(s, w, 4)), second |-> second]

\* dt + timedelta(minutes = mins), for 0 <= mins < one day: [ok |-> FALSE]
\* stands for OverflowError (the sum lies after year 9999).
plus_timedelta(dt, mins) ==
    LET total == dt.hour * 60 + dt.minute + mins
        carry == total >= 24 * 60
        tod == IF carry THEN total - 24 * 60 ELSE total
        lastday == dt.day = DaysInMonth(dt.year, dt.month)
        day == IF ~carry THEN dt.day ELSE IF lastday THEN 1 ELSE dt.day + 1
        month == IF carry /\ lastday
                 THEN (IF dt.month = 12 THEN 1 ELSE dt.month + 1) ELSE dt.month
        year == IF carry /\ lastday /\ dt.month = 12 THEN dt.year + 1 ELSE dt.year
    IN IF year > 9999 THEN [ok |-> FALSE]
       ELSE [ok |-> TRUE, year |-> year, month |-> month, day |-> day,
             hour |-> tod \div 60, minute |-> tod % 60, second |-> dt.second]

\* dt.strftime("%Y-%m-%d %H:%M:%S IST").  %Y is handed to the C library: glibc
\* prints a year below 1000 without leading zeros, other libraries zero-fill it
\* to four digits.
strftime(dt, pads_year) ==
    (IF pads_year THEN ZeroFill(dt.year, 4) ELSE Decimal(dt.year))
    \o "-" \o ZeroFill(dt.month, 2) \o "-" \o ZeroFill(dt.day, 2)
    \o " " \o ZeroFill(dt.hour, 2) \o ":" \o ZeroFill(dt.minute, 2)
    \o ":" \o ZeroFill(dt.second, 2) \o " IST"

-----------------------------------------------------------------------------
(* parse_pdf_date *)

\* date_str after the "D:" prefix is removed (lines 128-129).
strip_prefix(s) == IF startswith(s, "D:") THEN SubSeq(s, 3, Len(s)) ELSE s

\* A parser that reads the sign of a +HH'mm' suffix as a shift too.
timezone_offset_shifting_plus(s) ==
    IF endswith(s, "Z") \/ contains(s, "+") \/ contains(s, "-") THEN 5 * 60 + 30 ELSE 0

\* timezone_offset in minutes (lines 132-136): 5 h 30 min after a trailing Z,
\* zero otherwise.
timezone_offset(s) == IF endswith(s, "Z") THEN 5 * 60 + 30 ELSE 0

\* date_str as the timezone branches leave it (lines 134-142); s has no prefix.
strip_timezone(s) ==
    IF endswith(s, "Z") THEN SubSeq(s, 1, Len(s) - 1)
    ELSE IF contains(s, "+") THEN split_first(s, "+")
    ELSE IF contains(s, "-") /\ Len(s) > 14 THEN split_first(s, "-")
    ELSE s

\* base_datetime (lines 145-148); s is date_str after both rewritings.
base_datetime(s) == IF Len(s) >= 14 THEN strptime(SubSeq(s, 1, 14)) ELSE strptime(s)

\* final_datetime (line 151).
final_datetime(s, offset) ==
    LET base == base_datetime(s)
    IN IF base.ok THEN plus_timedelta(base, offset) ELSE [ok |-> FALSE]

\* What the handler of line 154 returns: the local date_str at the time of the
\* exception, that is after the rewritings of lines 129-142.
parse_except(original, rewritten) == Str(rewritten)

\* parse_pdf_date(date_str), date_str None or a string.
parse_pdf_date(date_str, pads_year) ==
    IF ~Truthy(date_str) THEN None
    ELSE LET stripped == strip_prefix(date_str[1])
             rewritten == strip_timezone(stripped)
             final == final_datetime(rewritten, timezone_offset(stripped))
         IN IF final.ok THEN Str(strftime(final, pads_year))
            ELSE parse_except(date_str[1], rewritten)

\* Whether the try block of parse_pdf_date raises for the non-empty string s.
parse_raises(s) ==
    ~ final_datetime(strip_timezone(strip_prefix(s)), timezone_offset(strip_prefix(s))).ok

-----------------------------------------------------------------------------
(* clean_metadata_string *)

Whitespace == {" ", "\t", "\n", "\r"}

RECURSIVE lstrip(_)
lstrip(s) == IF s # "" /\ CharAt(s, 1) \in Whitespace THEN lstrip(Tail(s)) ELSE s

RECURSIVE rstrip(_)
rstrip(s) ==
    IF s # "" /\ CharAt(s, Len(s)) \in Whitespace
    THEN rstrip(SubSeq(s, 1, Len(s) - 1)) ELSE s

\* str.strip()
strip(s) == rstrip(lstrip(s))

\* A cleaner that forgets the placeholder list of line 167.
clean_metadata_string_keeps_placeholders(value) ==
    IF ~Truthy(value) THEN None
    ELSE LET stripped == strip(value[1])
         IN IF startswith(stripped, "(") /\ endswith(stripped, ")")
            THEN Str(SubSeq(stripped, 2, Len(stripped) - 1))
            ELSE Str(stripped)

\* clean_metadata_string(value), value None or a string.
clean_metadata_string(value) ==
    IF ~Truthy(value) THEN None
    ELSE LET stripped == strip(value[1])
             clean_value == IF startswith(stripped, "(") /\ endswith(stripped, ")")
                            THEN SubSeq(stripped, 2, Len(stripped) - 1)
                            ELSE stripped
         IN IF clean_value \in {"", "None", "null", "()", "( )"}
            THEN None ELSE Str(clean_value)

-----------------------------------------------------------------------------
(* check_pdf_authenticity *)

\* An uploaded file is a record
\*   [name, is_pdf, docinfo, trailer]
\* docinfo: the document-information dictionary as line 184 reads it, a function
\*          from the keys present to the text str(v) of each entry;
\* trailer: the entries << key, value >> of the trailer dictionary, in the
\*          order in which the file writes them.

\* A lookup that gives "" for a missing key, as metadata.get(key, "") would.
metadata_get_or_empty(metadata, key) ==
    IF key \in DOMAIN metadata THEN Str(metadata[key]) ELSE Str("")

\* metadata.get(key): None when the key is missing.
metadata_get(metadata, key) ==
    IF key \in DOMAIN metadata THEN Str(metadata[key]) ELSE None

\* A status that compares the moments the two dates name, not their texts.
mod_status_by_instant(creation_date, mod_date) ==
    IF ~Truthy(mod_date) \/ parse_pdf_date(mod_date, TRUE) = parse_pdf_date(creation_date, TRUE)
    THEN "Original" ELSE "Modified"

\* mod_status (lines 203-206).
mod_status(creation_date, mod_date) ==
    IF ~Truthy(mod_date) \/ mod_date = creation_date THEN "Original" ELSE "Modified"

\* doc.pdf_trailer() (line 210): PyMuPDF returns the source text of the trailer
\* dictionary, every key written as a name and followed by its value.
RECURSIVE trailer_entries(_)
trailer_entries(entries) ==
    IF entries = << >> THEN ""
    ELSE " /" \o Head(entries)[1] \o " " \o Head(entries)[2] \o trailer_entries(Tail(entries))

pdf_trailer(entries) == "<<" \o trailer_entries(entries) \o " >>"

\* has_signature (line 211): the  in  of a str in a str.
has_signature(trailer) == contains(trailer, "SigFlags")

\* The dictionary built at lines 214-229 from an opened PDF.
build_result(file, pads_year) ==
    LET metadata == file.docinfo
        creation_date == metadata_get(metadata, "/CreationDate")
        mod_date == metadata_get(metadata, "/ModDate")
    IN [ creation_date |-> parse_pdf_date(creation_date, pads_year),
         creation_date_raw |-> creation_date,
         modification_date |-> parse_pdf_date(mod_date, pads_year),
         modification_date_raw |-> mod_date,
         modification_status |-> mod_status(creation_date, mod_date),
         digital_signature |-> IF has_signature(pdf_trailer(file.trailer))
                               THEN "Present" ELSE "Not Present",
         title |-> clean_metadata_string(metadata_get(metadata, "/Title")),
         author |-> clean_metadata_string(metadata_get(metadata, "/Author")),
         subject |-> clean_metadata_string(metadata_get(metadata, "/Subject")),
         creator |-> clean_metadata_string(metadata_get(metadata, "/Creator")),
         producer |-> clean_metadata_string(metadata_get(metadata, "/Producer")),
         keywords |-> clean_metadata_string(metadata_get(metadata, "/Keywords")),
         file_name |-> file.name,
         raw_metadata |-> metadata ]

\* The steps of check_pdf_authenticity that can raise; "none": no step does.
\*   mktemp     tempfile.NamedTemporaryFile            line 176
\*   read       uploaded_file.read()                   line 177
\*   write      temp_pdf.write(...)                    line 177
\*   open       pikepdf.Pdf.open                       line 182
\*   docinfo    pdf.docinfo and the str(v) of it       lines 183-184
\*   fitz_open  fitz.open                              line 209
\*   trailer    doc.pdf_trailer()                      line 210
CheckFaults ==
    {"none", "mktemp", "read", "write", "open", "docinfo", "fitz_open", "trailer"}

\* The faults that strike before the try statement of line 180 is entered.
BeforeTry == {"mktemp", "read", "write"}

\* The message pikepdf gives for bytes that are no PDF.
NotAPdfMessage == "unable to find trailer dictionary"

\* check_pdf_authenticity(uploaded_file) when step fault raises an exception
\* whose str() is message ("none": no step raises of itself; pikepdf still
\* raises for a file that is no PDF), and os.unlink raises iff unlink_raises.
\*   raised       an exception leaves the function
\*   result/error the pair returned otherwise, each None or a value
\*   temp_exists  whether the temporary file is on disk afterwards
check_pdf_authenticity(file, fault, message, unlink_raises, pads_year) ==
    IF fault = "mktemp"
    THEN [raised |-> TRUE, result |-> None, error |-> None, temp_exists |-> FALSE]
    ELSE IF fault \in BeforeTry
    THEN \* the with statement of line 176 closes the file (delete=False) and the
         \* exception leaves: the finally of line 236 belongs to the later try.
         [raised |-> TRUE, result |-> None, error |-> None, temp_exists |-> TRUE]
    ELSE IF unlink_raises
    THEN \* the exception of line 239 replaces the return in progress.
         [raised |-> TRUE, result |-> None, error |-> None, temp_exists |-> TRUE]
    ELSE IF fault # "none"
    THEN [raised |-> FALSE, result |-> None, error |-> Str(message), temp_exists |-> FALSE]
    ELSE IF ~file.is_pdf
    THEN [raised |-> FALSE, result |-> None, error |-> Str(NotAPdfMessage),
          temp_exists |-> FALSE]
    ELSE [raised |-> FALSE, result |-> << build_result(file, pads_year) >>,
          error |-> None, temp_exists |-> FALSE]

-----------------------------------------------------------------------------
(* analyze_metadata_with_llm *)

\* The steps of analyze_metadata_with_llm that can raise; "none": none does.
\*   model     genai.GenerativeModel                   line 47
\*   prompt    building the prompt                     lines 50-113
\*   generate  model.generate_content                  line 115
\*   text      response.text                           line 116
LlmFaults == {"none", "model", "prompt", "generate", "text"}

\* A handler that returns the bare message of the exception.
llm_except_bare(message) == message

\* The handler of lines 118-119.
llm_except(message) == "Error analyzing with AI: " \o message

\* analyze_metadata_with_llm(...) when step fault raises an exception whose
\* str() is message, and the service answers response otherwise.  Every step
\* stands inside the try of line 46, so no exception leaves.
analyze_metadata_with_llm(fault, message, response) ==
    IF fault = "none"
    THEN [raised |-> FALSE, text |-> response]
    ELSE [raised |-> FALSE, text |-> llm_except(message)]

-----------------------------------------------------------------------------
(* The call of parse_pdf_date on the date strings a PDF can carry *)

\* Strings over the characters cs of length at most n.
RECURSIVE StringsUpTo(_, _)
StringsUpTo(cs, n) ==
    IF n = 0 THEN {""}
    ELSE LET shorter == StringsUpTo(cs, n - 1)
         IN shorter \cup {t \o c : t \in shorter, c \in cs}

SampleYears == {999, 2023, 2024, 9999}

\* << month, day >>, with a day February never has and a month that does not exist.
SampleMonthDays ==
    { <<1, 1>>, <<2, 28>>, <<2, 29>>, <<2, 30>>, <<6, 15>>, <<12, 31>>, <<13, 1>> }

\* << hour, minute, second >>, with an hour that does not exist.
SampleTimes ==
    { <<0, 0, 0>>, <<9, 0, 0>>, <<14, 30, 22>>, <<18, 29, 59>>, <<18, 30, 0>>,
      <<20, 0, 0>>, <<24, 0, 0>> }

\* YYYYMMDDHHMMSS texts, calendar-valid or not.
FourteenDigitBodies ==
    { ZeroFill(y, 4) \o ZeroFill(md[1], 2) \o ZeroFill(md[2], 2)
      \o ZeroFill(t[1], 2) \o ZeroFill(t[2], 2) \o ZeroFill(t[3], 2) :
        y \in SampleYears, md \in SampleMonthDays, t \in SampleTimes }

\* Texts that are no 14-digit date: letters, short digit strings (one of which
\* strptime accepts), ISO-style dates, a blank inside.
OtherBodies ==
    { "BADVALUE", "2023", "2023111213", "2023061514302", "2023-06-15",
      "2023-06-15T10:00:00", "20230615 43022", "" }

SuffixChars == {"0", "'", "Z", "-"}

\* What follows the seconds: nothing, Z, or a sign and up to MaxSuffixLen more
\* characters.
SampleSuffixes ==
    {"", "Z"} \cup {sign \o t : sign \in {"+", "-"}, t \in StringsUpTo(SuffixChars, MaxSuffixLen)}

\* The arguments parse_pdf_date is called with: None (the key is missing) or
\* the text of the entry.
DateArguments ==
    {None} \cup { Str(p \o b \o z) : p \in {"", "D:"},
                                     b \in FourteenDigitBodies \cup OtherBodies,
                                     z \in SampleSuffixes }

\* The application before its first run, with nothing typed or uploaded.
AppAtRest ==
    /\ gemini_api_key = None
    /\ text_input = ""
    /\ uploaded_file = None
    /\ button = FALSE
    /\ rendered = {}
    /\ pc = "idle"
    /\ configured = FALSE
    /\ log = << >>
    /\ check_fault = "none"
    /\ unlink_failed = FALSE
    /\ temp_exists = FALSE
    /\ result = None
    /\ error = None
    /\ llm_fault = "none"
    /\ ai_analysis = None
    /\ shown = "nothing"

\* No call of clean_metadata_string is under way.
CleanAtRest ==
    /\ clean_pc = "done"
    /\ clean_in = None
    /\ clean_out = None

\* No call of parse_pdf_date is under way.
ParseAtRest ==
    /\ parse_pc = "done"
    /\ parse_in = None
    /\ parse_out = None

InitParse ==
    /\ strftime_pads_year \in BOOLEAN
    /\ parse_pc = "ready"
    /\ parse_in \in DateArguments
    /\ parse_out = None
    /\ CleanAtRest
    /\ AppAtRest

CallParsePdfDate ==
    /\ parse_pc = "ready"
    /\ parse_out' = parse_pdf_date(parse_in, strftime_pads_year)
    /\ parse_pc' = "done"
    /\ UNCHANGED << strftime_pads_year, parse_in, clean_vars, session_vars, run_vars >>

NextParse == CallParsePdfDate

SpecParse == InitParse /\ [][NextParse]_vars

-----------------------------------------------------------------------------
(* The call of clean_metadata_string on the values a PDF can carry *)

CleanChars == {"(", ")", " ", "a"}

\* The arguments clean_metadata_string is called with: None (the key is
\* missing), short texts of parentheses, blanks and a letter, and the values of
\* real files.
CleanArguments ==
    {None}
    \cup { Str(t) : t \in StringsUpTo(CleanChars, MaxCleanLen) }
    \cup { Str("(Acme Corp)"), Str(" (Acme Corp) "), Str("Acme Corp"), Str("None"),
           Str("null"), Str("(None)"), Str("(null)"), Str("((None))"), Str("(( ))"),
           Str("((()))"), Str("\t(a)\n") }

InitClean ==
    /\ strftime_pads_year = TRUE
    /\ ParseAtRest
    /\ clean_pc = "ready"
    /\ clean_in \in CleanArguments
    /\ clean_out = None
    /\ AppAtRest

CallCleanMetadataString ==
    /\ clean_pc = "ready"
    /\ clean_out' = clean_metadata_string(clean_in)
    /\ clean_pc' = "done"
    /\ UNCHANGED << strftime_pads_year, parse_vars, clean_in, session_vars, run_vars >>

NextClean == CallCleanMetadataString

SpecClean == InitClean /\ [][NextClean]_vars

-----------------------------------------------------------------------------
(* main: one run of the script per interaction with the page *)

\* Texts of /CreationDate and /ModDate; None: the entry is missing.
SampleCreationDates ==
    { None, Str(""), Str("D:20230101000000"), Str("20230101000000"),
      Str("D:20220101120000+05'00'") }

SampleModDates ==
    { None, Str(""), Str("D:20230101000000"), Str("D:20230101000001"),
      Str("20230101000000"), Str("D:20220101120000+05'00'") }

SampleTitles == { None, Str("(Acme Corp)"), Str("None") }

\* Trailer dictionaries: unsigned; with the SigFlags key (two values); with the
\* text SigFlags inside another key; with it inside a value.
SampleTrailers ==
    { << <<"Size", "8">>, <<"Root", "1 0 R">> >>,
      << <<"Size", "8">>, <<"Root", "1 0 R">>, <<"SigFlags", "3">> >>,
      << <<"Size", "8">>, <<"SigFlags", "0">>, <<"Root", "1 0 R">> >>,
      << <<"Size", "8">>, <<"Root", "1 0 R">>, <<"NoSigFlags", "1">> >>,
      << <<"Size", "8">>, <<"Root", "1 0 R">>, <<"Note", "(SigFlags)">> >> }

\* The dictionary with the entries whose value is not None.
Docinfo(creation, mod, title) ==
    LET all == [k \in {"/CreationDate", "/ModDate", "/Title"} |->
                   IF k = "/CreationDate" THEN creation
                   ELSE IF k = "/ModDate" THEN mod ELSE title]
    IN [k \in {x \in DOMAIN all : all[x] # None} |-> all[k][1]]

PdfFile(creation, mod, title, tr) ==
    [name |-> "invoice.pdf", is_pdf |-> TRUE, docinfo |-> Docinfo(creation, mod, title),
     trailer |-> tr]

UnsignedTrailer == << <<"Size", "8">>, <<"Root", "1 0 R">> >>

\* The files a user uploads: every pair of dates in an unsigned file, every
\* title with every trailer in a file of one date, a file with every entry,
\* and a file that is no PDF.
\* A file whose document information has all eight entries.
FullFile ==
    [name |-> "report.pdf", is_pdf |-> TRUE, trailer |-> UnsignedTrailer,
     docinfo |-> [k \in {"/CreationDate", "/ModDate", "/Title", "/Author", "/Subject",
                         "/Creator", "/Producer", "/Keywords"} |->
                    CASE k = "/CreationDate" -> "D:20230615090000Z"
                      [] k = "/ModDate" -> "D:20230615090000Z"
                      [] k = "/Title" -> "(Quarterly Report)"
                      [] k = "/Author" -> " J. Doe "
                      [] k = "/Subject" -> "None"
                      [] k = "/Creator" -> "(Crystal Reports)"
                      [] k = "/Producer" -> "Apache FOP"
                      [] k = "/Keywords" -> "()"]]

SampleFiles ==
    { PdfFile(c, m, None, UnsignedTrailer) : c \in SampleCreationDates, m \in SampleModDates }
    \cup { PdfFile(Str("D:20230101000000"), None, t, tr) :
             t \in SampleTitles, tr \in SampleTrailers }
    \cup { FullFile }
    \cup { [name |-> "notes.pdf", is_pdf |-> FALSE, docinfo |-> << >>, trailer |-> << >>] }

SamplePasswords == {"", "key-1", "key-2"}

\* str(e) of the exceptions the libraries raise; an exception may have no text.
SampleMessages == {"", "quota exceeded", "Error 403"}

\* Answers of the text-generation service.
SampleResponses ==
    { "**Document Timeline:** created with Crystal Reports.",
      "Errors or signs of tampering were not found.",
      "" }

\* What a run starts from: the locals of main are unset.
RunStarts ==
    /\ pc' = "configure"
    /\ configured' = FALSE
    /\ log' = << >>
    /\ check_fault' = "none"
    /\ unlink_failed' = FALSE
    /\ result' = None
    /\ error' = None
    /\ llm_fault' = "none"
    /\ ai_analysis' = None
    /\ shown' = "nothing"
    /\ rendered' = {}
    /\ UNCHANGED << strftime_pads_year, parse_vars, clean_vars, gemini_api_key, temp_exists >>

\* The browser opens the page: the first run.
OpenPage ==
    /\ pc = "idle"
    /\ rendered = {}
    /\ gemini_api_key = None
    /\ RunStarts
    /\ UNCHANGED << text_input, uploaded_file, button >>

\* The user types into the password box (line 18), which reruns the script.
TypePassword ==
    /\ pc = "idle"
    /\ "text_input" \in rendered
    /\ \E api_key \in SamplePasswords : text_input' = api_key
    /\ button' = FALSE
    /\ RunStarts
    /\ UNCHANGED uploaded_file

\* The user puts a file into the uploader (line 257) or takes it out.
ChooseFile ==
    /\ pc = "idle"
    /\ "file_uploader" \in rendered
    /\ \E f \in {None} \cup {<< x >> : x \in SampleFiles} : uploaded_file' = f
    /\ button' = FALSE
    /\ RunStarts
    /\ UNCHANGED text_input

\* The user clicks the Analyze button (line 263).
ClickAnalyze ==
    /\ pc = "idle"
    /\ "button" \in rendered
    /\ button' = TRUE
    /\ RunStarts
    /\ UNCHANGED << text_input, uploaded_file >>

\* A configure_gemini that stores whatever is typed, key held or not.
configure_gemini_overwrites(key, api_key) ==
    IF api_key # ""
    THEN [key |-> Str(api_key), returned |-> TRUE, asks |-> TRUE]
    ELSE [key |-> IF key = None THEN Str("") ELSE key, returned |-> Truthy(key),
          asks |-> TRUE]

\* configure_gemini() (lines 12-28), key the session's gemini_api_key (None: not
\* in session_state yet) and api_key the text of the password box.
\*   key       st.session_state.gemini_api_key afterwards
\*   returned  the value returned
\*   asks      whether st.text_input was called (line 18)
configure_gemini(key, api_key) ==
    LET held == IF key = None THEN Str("") ELSE key
    IN IF ~Truthy(held)
       THEN IF api_key # ""
            THEN [key |-> Str(api_key), returned |-> TRUE, asks |-> TRUE]
            ELSE [key |-> held, returned |-> FALSE, asks |-> TRUE]
       ELSE [key |-> held, returned |-> TRUE, asks |-> FALSE]

\* A main that goes on to the uploader whatever configure_gemini returned.
after_configure_always(returned) == "uploader"

\* The test of lines 251-252: main returns unless configure_gemini returned True.
after_configure(returned) == IF returned THEN "uploader" ELSE "idle"

\* The call of configure_gemini at line 251.
ConfigureGemini ==
    /\ pc = "configure"
    /\ LET r == configure_gemini(gemini_api_key, text_input)
       IN /\ gemini_api_key' = r.key
          /\ rendered' = IF r.asks THEN rendered \cup {"text_input"} ELSE rendered
          /\ configured' = r.returned
          /\ pc' = after_configure(r.returned)
    /\ UNCHANGED << strftime_pads_year, parse_vars, clean_vars, text_input, uploaded_file,
                    button, log, check_fault, unlink_failed, temp_exists, result, error,
                    llm_fault, ai_analysis, shown >>

\* The uploader and the button (lines 257-263).
FileUploader ==
    /\ pc = "uploader"
    /\ IF uploaded_file = None
       THEN /\ rendered' = rendered \cup {"file_uploader"}
            /\ pc' = "idle"
       ELSE /\ rendered' = rendered \cup {"file_uploader", "button"}
            /\ pc' = IF button THEN "check" ELSE "idle"
    /\ UNCHANGED << strftime_pads_year, parse_vars, clean_vars, gemini_api_key, text_input,
                    uploaded_file, button, configured, log, check_fault, unlink_failed,
                    temp_exists, result, error, llm_fault, ai_analysis, shown >>

\* The call of line 265.  An exception that leaves check_pdf_authenticity ends
\* the run: Streamlit shows it.
CheckPdfAuthenticity ==
    /\ pc = "check"
    /\ \E fault \in CheckFaults, message \in SampleMessages, unlink_raises \in BOOLEAN :
          LET r == check_pdf_authenticity(uploaded_file[1], fault, message,
                                          unlink_raises, strftime_pads_year)
          IN /\ check_fault' = IF fault = "none" /\ ~uploaded_file[1].is_pdf
                               THEN "open" ELSE fault
             /\ unlink_failed' = (unlink_raises /\ fault \notin BeforeTry)
             /\ temp_exists' = r.temp_exists
             /\ result' = r.result
             /\ error' = r.error
             /\ IF r.raised
                THEN /\ log' = log \o << "check_pdf_authenticity", "check raised" >>
                     /\ shown' = "exception"
                     /\ pc' = "idle"
                ELSE /\ log' = log \o << "check_pdf_authenticity", "check returned" >>
                     /\ shown' = shown
                     /\ pc' = "branch"
    /\ UNCHANGED << strftime_pads_year, parse_vars, clean_vars, session_vars, configured, llm_fault,
                    ai_analysis >>

\* The test of line 267 and the display of the result (lines 268-306).  With
\* a falsy error and no result the else branch is entered all the same, and
\* result['file_name'] of line 280 raises TypeError.
ShowResult ==
    /\ pc = "branch"
    /\ IF Truthy(error)
       THEN shown' = "pdf error" /\ pc' = "idle"
       ELSE IF result = None
       THEN shown' = "exception" /\ pc' = "idle"
       ELSE shown' = "results" /\ pc' = "analyze"
    /\ UNCHANGED << strftime_pads_year, parse_vars, clean_vars, session_vars, configured, log,
                    check_fault, unlink_failed, temp_exists, result, error, llm_fault,
                    ai_analysis >>

\* The call of lines 312-317.
AnalyzeMetadataWithLlm ==
    /\ pc = "analyze"
    /\ \E fault \in LlmFaults, message \in SampleMessages, response \in SampleResponses :
          LET r == analyze_metadata_with_llm(fault, message, response)
          IN /\ llm_fault' = fault
             /\ IF r.raised
                THEN /\ ai_analysis' = None
                     /\ log' = log \o << "analyze_metadata_with_llm", "analyze raised" >>
                     /\ shown' = "exception"
                     /\ pc' = "idle"
                ELSE /\ ai_analysis' = Str(r.text)
                     /\ log' = log \o << "analyze_metadata_with_llm", "analyze returned" >>
                     /\ shown' = shown
                     /\ pc' = "report"
    /\ UNCHANGED << strftime_pads_year, parse_vars, clean_vars, session_vars, configured, check_fault,
                    unlink_failed, temp_exists, result, error >>

\* The test of line 319 and the rest of the page.
ShowAnalysis ==
    /\ pc = "report"
    /\ shown' = IF startswith(ai_analysis[1], "Error") THEN "ai error" ELSE "ai analysis"
    /\ pc' = "idle"
    /\ UNCHANGED << strftime_pads_year, parse_vars, clean_vars, session_vars, configured, log,
                    check_fault, unlink_failed, temp_exists, result, error, llm_fault,
                    ai_analysis >>

Init ==
    /\ strftime_pads_year \in BOOLEAN
    /\ parse_pc = "done"
    /\ parse_in = None
    /\ parse_out = None
    /\ CleanAtRest
    /\ AppAtRest

Next ==
    \/ OpenPage
    \/ TypePassword
    \/ ChooseFile
    \/ ClickAnalyze
    \/ ConfigureGemini
    \/ FileUploader
    \/ CheckPdfAuthenticity
    \/ ShowResult
    \/ AnalyzeMetadataWithLlm
    \/ ShowAnalysis

Spec == Init /\ [][Next]_vars

-----------------------------------------------------------------------------
(* Claims about check_pdf_authenticity and analyze_metadata_with_llm, checked
   under Spec *)

\* The call of check_pdf_authenticity of this run has ended.
CheckEnded == Len(log) >= 2 /\ log[1] = "check_pdf_authenticity"

\* The call of analyze_metadata_with_llm of this run has ended.
AnalyzeEnded == Len(log) >= 4 /\ log[3] = "analyze_metadata_with_llm"

\* C2: after check_pdf_authenticity ends by any of its paths (extraction done,
\* the bytes are no PDF, an unexpected error during extraction, a failure while
\* the upload is read or written to the temporary file), the temporary file it
\* created no longer exists.  (The run in which the removal itself raises is
\* left out: the claim names the paths above.)
C2_TempFileRemoved ==
    (CheckEnded /\ ~unlink_failed) => ~temp_exists

\* C3: check_pdf_authenticity never lets an exception reach its caller: a
\* failure at any step (reading the upload, writing the temporary file, opening
\* the PDF, reading the document information, reading the trailer, removing the
\* temporary file) ends with the return of (no result, error string).
C3_NeverRaises ==
    CheckEnded =>
        /\ log[2] = "check returned"
        /\ (check_fault # "none" \/ unlink_failed) => (result = None /\ error # None)

\* C4: whenever a step of analyze_metadata_with_llm fails (model construction,
\* prompt building, the generate call, reading the response text), the function
\* returns a string that begins with "Error" and no exception reaches the caller.
C4_LlmFailureGivesErrorText ==
    (AnalyzeEnded /\ llm_fault # "none") =>
        /\ log[4] = "analyze returned"
        /\ ai_analysis # None
        /\ startswith(ai_analysis[1], "Error")
        /\ shown # "exception"

\* C4 witness: the generate call failed for quota, and main showed the error text.
C4_Witness ==
    /\ AnalyzeEnded
    /\ llm_fault = "generate"
    /\ ai_analysis = Str("Error analyzing with AI: quota exceeded")
    /\ shown = "ai error"

\* C5: the returned text begins with "Error" if and only if the text-generation
\* call failed, so that the startswith("Error") test of main classifies every
\* outcome correctly.
C5_PrefixTellsFailure ==
    AnalyzeEnded =>
        /\ startswith(ai_analysis[1], "Error") <=> llm_fault # "none"
        /\ shown = "ai error" => llm_fault # "none"
        /\ shown = "ai analysis" => llm_fault = "none"

\* The raw /ModDate of the uploaded file is missing or empty.
ModDateAbsent ==
    LET d == uploaded_file[1].docinfo
    IN "/ModDate" \notin DOMAIN d \/ d["/ModDate"] = ""

\* Both raw dates are there and are the same text.
RawDatesEqual ==
    LET d == uploaded_file[1].docinfo
    IN /\ "/ModDate" \in DOMAIN d
       /\ "/CreationDate" \in DOMAIN d
       /\ d["/ModDate"] = d["/CreationDate"]

\* C6: in every result, modification_status is Original exactly when the raw
\* ModDate is absent (or empty) or equals the raw CreationDate character for
\* character, and Modified in every other case.
C6_ModificationStatus ==
    result # None =>
        result[1].modification_status =
            IF ModDateAbsent \/ RawDatesEqual THEN "Original" ELSE "Modified"

\* C6 witness: a result for two raw dates that differ as texts and name the
\* same instant: both are displayed alike and the status is Modified.
C6_Witness ==
    /\ result # None
    /\ result[1].creation_date_raw = Str("D:20230101000000")
    /\ result[1].modification_date_raw = Str("20230101000000")
    /\ result[1].creation_date = result[1].modification_date
    /\ result[1].modification_status = "Modified"

\* C7: in every result, digital_signature is Present if and only if the trailer
\* dictionary has an entry whose key is SigFlags, whatever its value; the text
\* SigFlags inside another key or inside a value yields Not Present.
C7_SignatureIffKey ==
    result # None =>
        LET tr == uploaded_file[1].trailer
        IN result[1].digital_signature =
               IF \E i \in 1..Len(tr) : tr[i][1] = "SigFlags"
               THEN "Present" ELSE "Not Present"

-----------------------------------------------------------------------------
(* Claims about the runs of main, checked under Spec *)

\* C13: across the reruns of a session, once the held credential
\* (st.session_state.gemini_api_key) is non-empty it is never written again:
\* configure_gemini assigns it only while it is empty and no other operation
\* changes it.
C13_CredentialSetOnce ==
    [][Truthy(gemini_api_key) => gemini_api_key' = gemini_api_key]_vars

\* C13 witness: configure_gemini has run with key-1 held while the password box
\* reads key-2, and the held credential is still key-1.
C13_Witness ==
    /\ gemini_api_key = Str("key-1")
    /\ text_input = "key-2"
    /\ pc = "uploader"

\* The calls a run may have made so far, in their order.
RunLogs ==
    { << >>,
      << "check_pdf_authenticity", "check raised" >>,
      << "check_pdf_authenticity", "check returned" >>,
      << "check_pdf_authenticity", "check returned",
         "analyze_metadata_with_llm", "analyze raised" >>,
      << "check_pdf_authenticity", "check returned",
         "analyze_metadata_with_llm", "analyze returned" >> }

\* C14: in every run of main, check_pdf_authenticity is called at most once and
\* analyze_metadata_with_llm at most once, the narrative call starts only after
\* the extraction call of the run has returned, and neither is called unless
\* configure_gemini returned true in the run (a non-empty credential is held).
C14_OnePipelinePerRun ==
    /\ log \in RunLogs
    /\ pc \in {"check", "branch", "analyze", "report"} \/ log # << >>
          => (configured /\ Truthy(gemini_api_key))
    /\ pc = "check" => log = << >>
    /\ pc = "analyze" => log = << "check_pdf_authenticity", "check returned" >>

\* C14 witness: a run has made both calls, one after the other.
C14_Witness ==
    /\ log = << "check_pdf_authenticity", "check returned",
                "analyze_metadata_with_llm", "analyze returned" >>
    /\ configured
    /\ pc = "idle"

\* The call of check_pdf_authenticity of this run has returned a pair.
CheckReturned == CheckEnded /\ log[2] = "check returned"

\* C15: every return of check_pdf_authenticity carries exactly one of a
\* populated result and a non-empty error description, so that main enters the
\* branch that reads the result and calls analyze_metadata_with_llm only with a
\* result, and a failed extraction is always shown as an error.
C15_ResultOrError ==
    /\ CheckReturned => ((result # None) # Truthy(error))
    /\ (CheckReturned /\ pc = "idle" /\ result = None) => shown = "pdf error"
    /\ pc \in {"analyze", "report"} => result # None

\* An entry of the result's raw_metadata, None when the key is missing.
RawEntry(key) ==
    LET raw == result[1].raw_metadata
    IN IF key \in DOMAIN raw THEN << raw[key] >> ELSE << >>

\* The parts of C17 about single fields: the raw dates are the entries of
\* raw_metadata (absent when the key is missing), the displayed dates are
\* parse_pdf_date of them, the six cleaned fields are clean_metadata_string of
\* their entries.
ResultFieldsConsistent ==
    LET r == result[1]
    IN /\ r.raw_metadata = uploaded_file[1].docinfo
       /\ r.creation_date_raw = RawEntry("/CreationDate")
       /\ r.modification_date_raw = RawEntry("/ModDate")
       /\ r.creation_date = parse_pdf_date(RawEntry("/CreationDate"), strftime_pads_year)
       /\ r.modification_date = parse_pdf_date(RawEntry("/ModDate"), strftime_pads_year)
       /\ r.title = clean_metadata_string(RawEntry("/Title"))
       /\ r.author = clean_metadata_string(RawEntry("/Author"))
       /\ r.subject = clean_metadata_string(RawEntry("/Subject"))
       /\ r.creator = clean_metadata_string(RawEntry("/Creator"))
       /\ r.producer = clean_metadata_string(RawEntry("/Producer"))
       /\ r.keywords = clean_metadata_string(RawEntry("/Keywords"))

\* C17 as stated: every result is consistent with its own raw_metadata, and
\* therefore whenever modification_status is Original with ModDate present the
\* two displayed timestamps are equal.
C17_OriginalShowsEqualDates ==
    result # None =>
        /\ ResultFieldsConsistent
        /\ (result[1].modification_status = "Original" /\ RawEntry("/ModDate") # None)
              => result[1].creation_date = result[1].modification_date

\* C17, amended: the same, the two displayed timestamps being equal whenever
\* modification_status is Original with ModDate present and not empty.
C17_ResultConsistent ==
    result # None =>
        /\ ResultFieldsConsistent
        /\ (result[1].modification_status = "Original" /\ Truthy(RawEntry("/ModDate")))
              => result[1].creation_date = result[1].modification_date

\* C17 witness: the result of the file with all eight entries: both dates are
\* displayed as 14:30, the status is Original, the fields are cleaned.
C17_Witness ==
    /\ result # None
    /\ result[1].file_name = "report.pdf"
    /\ result[1].modification_status = "Original"
    /\ result[1].modification_date_raw = Str("D:20230615090000Z")
    /\ result[1].modification_date = Str("2023-06-15 14:30:00 IST")
    /\ result[1].creation_date = Str("2023-06-15 14:30:00 IST")
    /\ result[1].title = Str("Quarterly Report")
    /\ result[1].author = Str("J. Doe")
    /\ result[1].subject = None
    /\ result[1].keywords = None

-----------------------------------------------------------------------------
(* Claims about clean_metadata_string, checked under SpecClean *)

CleanDone == clean_pc = "done"

\* t is s without the whitespace at its two ends.
IsTrimOf(t, s) ==
    \E i \in 1..(Len(s) + 1), j \in 0..Len(s) :
        /\ t = SubSeq(s, i, j)
        /\ \A k \in 1..(i - 1) : CharAt(s, k) \in Whitespace
        /\ \A k \in (j + 1)..Len(s) : CharAt(s, k) \in Whitespace
        /\ i <= j => (CharAt(s, i) \notin Whitespace /\ CharAt(s, j) \notin Whitespace)

\* t without one leading ( and one trailing ), when it has both.
Unwrapped(t) ==
    IF Len(t) >= 2 /\ CharAt(t, 1) = "(" /\ CharAt(t, Len(t)) = ")"
    THEN SubSeq(t, 2, Len(t) - 1) ELSE t

\* x is made of parentheses and blanks only, with a parenthesis in it.
ParenthesesOnly(x) ==
    /\ \A k \in 1..Len(x) : CharAt(x, k) \in {"(", ")", " "}
    /\ \E k \in 1..Len(x) : CharAt(x, k) \in {"(", ")"}

\* What is left of the argument once it is trimmed and unwrapped.
CleanResidue == Unwrapped(CHOOSE t \in {SubSeq(clean_in[1], i, j) :
                                           i \in 1..(Len(clean_in[1]) + 1),
                                           j \in 0..Len(clean_in[1])} :
                              IsTrimOf(t, clean_in[1]))

\* C11: clean_metadata_string is idempotent: cleaning what it returned returns
\* the same again (a string s gives s, absent gives absent).
C11_CleanIdempotent ==
    CleanDone => clean_metadata_string(clean_out) = clean_out

\* C12 as stated: the result is absent when the input is absent or empty;
\* otherwise the input is trimmed, one leading ( and one trailing ) are removed
\* when both are there, and the result is absent when what is left is "",
\* "None", "null" or any residue of parentheses only, else it is what is left.
C12_AnyParenthesesResidueAbsent ==
    CleanDone =>
        clean_out =
            IF ~Truthy(clean_in) THEN None
            ELSE IF CleanResidue \in {"", "None", "null"} \/ ParenthesesOnly(CleanResidue)
            THEN None ELSE Str(CleanResidue)

\* C12, amended: as above, the residues that give absent being exactly "()"
\* and "( )"; any other text of parentheses is returned as it is.
C12_CleanRule ==
    CleanDone =>
        clean_out =
            IF ~Truthy(clean_in) THEN None
            ELSE IF CleanResidue \in {"", "None", "null", "()", "( )"}
            THEN None ELSE Str(CleanResidue)

\* C12 witness: " (Acme Corp) " was cleaned to "Acme Corp".
C12_Witness ==
    /\ CleanDone
    /\ clean_in = Str(" (Acme Corp) ")
    /\ clean_out = Str("Acme Corp")

-----------------------------------------------------------------------------
(* Claims about parse_pdf_date, checked under SpecParse *)

\* b is fourteen digits that name a date and a time of the calendar.
IsValidDateTime(b) ==
    /\ Len(b) = 14
    /\ \A i \in 1..14 : IsDigit(CharAt(b, i))
    /\ LET year == int(SubSeq(b, 1, 4))
           month == int(SubSeq(b, 5, 6))
       IN /\ year >= 1
          /\ month \in 1..12
          /\ int(SubSeq(b, 7, 8)) \in 1..DaysInMonth(year, month)
          /\ int(SubSeq(b, 9, 10)) <= 23
          /\ int(SubSeq(b, 11, 12)) <= 59
          /\ int(SubSeq(b, 13, 14)) <= 59

\* The display string that carries the fields of b as they stand.
DisplayOf(b) ==
    SubSeq(b, 1, 4) \o "-" \o SubSeq(b, 5, 6) \o "-" \o SubSeq(b, 7, 8) \o " "
    \o SubSeq(b, 9, 10) \o ":" \o SubSeq(b, 11, 12) \o ":" \o SubSeq(b, 13, 14) \o " IST"

\* t has the shape YYYY-MM-DD HH:MM:SS IST.
IsDisplay(t) ==
    /\ Len(t) = 23
    /\ SubSeq(t, 20, 23) = " IST"
    /\ CharAt(t, 5) = "-" /\ CharAt(t, 8) = "-" /\ CharAt(t, 11) = " "
    /\ CharAt(t, 14) = ":" /\ CharAt(t, 17) = ":"
    /\ \A i \in (1..19) \ {5, 8, 11, 14, 17} : IsDigit(CharAt(t, i))

RECURSIVE DaysBeforeMonth(_, _)
DaysBeforeMonth(y, m) ==
    IF m = 1 THEN 0 ELSE DaysBeforeMonth(y, m - 1) + DaysInMonth(y, m - 1)

\* Days from 0001-01-01 to the day y-m-d.
DayOfEra(y, m, d) ==
    LET p == y - 1
    IN 365 * p + p \div 4 - p \div 100 + p \div 400 + DaysBeforeMonth(y, m) + d - 1

\* The display string t names the time of the 14 digits b moved by mins minutes.
DisplayIsShifted(t, b, mins) ==
    /\ IsDisplay(t)
    /\ SubSeq(t, 18, 19) = SubSeq(b, 13, 14)
    /\ LET moved == int(SubSeq(b, 9, 10)) * 60 + int(SubSeq(b, 11, 12)) + mins
       IN /\ DayOfEra(int(SubSeq(t, 1, 4)), int(SubSeq(t, 6, 7)), int(SubSeq(t, 9, 10)))
             = DayOfEra(int(SubSeq(b, 1, 4)), int(SubSeq(b, 5, 6)), int(SubSeq(b, 7, 8)))
               + moved \div (24 * 60)
          /\ int(SubSeq(t, 12, 13)) * 60 + int(SubSeq(t, 15, 16)) = moved % (24 * 60)

\* A timezone suffix of a PDF date that begins with a sign: the sign, then
\* digits and apostrophes (+HHMM, -HHMM, +HH'mm').
IsSignedTimezone(z) ==
    /\ Len(z) >= 1
    /\ CharAt(z, 1) \in {"+", "-"}
    /\ \A i \in 2..Len(z) : IsDigit(CharAt(z, i)) \/ CharAt(z, i) = "'"

ParseDone == parse_pc = "done" /\ Truthy(parse_in)

\* C1: for every non-empty input that parse_pdf_date cannot parse as a date,
\* it returns exactly the string it was given, "D:" prefix and timezone suffix
\* included.
C1_FallbackReturnsInput ==
    (ParseDone /\ parse_raises(parse_in[1])) => parse_out = parse_in

\* C8: for "D:" followed by 14 digits of a valid date and time and no suffix,
\* parse_pdf_date returns YYYY-MM-DD HH:MM:SS IST with the same six fields.
C8_PlainDateKeepsFields ==
    (/\ ParseDone
     /\ startswith(parse_in[1], "D:")
     /\ IsValidDateTime(SubSeq(parse_in[1], 3, Len(parse_in[1]))))
    => parse_out = Str(DisplayOf(SubSeq(parse_in[1], 3, Len(parse_in[1]))))

\* C9: for a valid 14-digit date and time (with or without "D:") followed by a
\* trailing Z, parse_pdf_date returns the display string of that time plus
\* exactly 5 hours 30 minutes, carried across minute, hour, day, month and year.
C9_ZuluAddsFiveThirty ==
    LET s == strip_prefix(parse_in[1])
    IN (/\ ParseDone
        /\ Len(s) = 15
        /\ CharAt(s, 15) = "Z"
        /\ IsValidDateTime(SubSeq(s, 1, 14)))
       => DisplayIsShifted(parse_out[1], SubSeq(s, 1, 14), 5 * 60 + 30)

\* The input is "D:", a valid 14-digit date and time B, and a signed timezone S.
C10_Case ==
    /\ ParseDone
    /\ startswith(parse_in[1], "D:")
    /\ Len(parse_in[1]) > 16
    /\ IsValidDateTime(SubSeq(parse_in[1], 3, 16))
    /\ IsSignedTimezone(SubSeq(parse_in[1], 17, Len(parse_in[1])))

\* C10: for every valid 14-digit B and every timezone suffix S that begins with
\* + or -, parse_pdf_date("D:" + B + S) = parse_pdf_date("D:" + B): the suffix
\* is removed and the time is not shifted.
C10_SignedSuffixOnlyRemoved ==
    C10_Case => parse_out = parse_pdf_date(Str(SubSeq(parse_in[1], 1, 16)), strftime_pads_year)

\* C10 witness: "D:20231231200000-0'" has been parsed, to 20:00 of the same day.
C10_Witness ==
    /\ C10_Case
    /\ parse_in = Str("D:20231231200000-0'")
    /\ parse_out = Str("2023-12-31 20:00:00 IST")

\* The texts C16 lets the fallback return for the input s: s without a leading
\* "D:", and then with a trailing Z removed, or cut at its first +, or cut at
\* its first - when it is longer than 14 characters, or as it is.
Rewritings(s) ==
    LET p == IF Len(s) >= 2 /\ SubSeq(s, 1, 2) = "D:" THEN SubSeq(s, 3, Len(s)) ELSE s
        CutAtFirst(c) == { SubSeq(p, 1, k - 1) :
                             k \in { i \in 1..Len(p) :
                                       /\ CharAt(p, i) = c
                                       /\ \A j \in 1..(i - 1) : CharAt(p, j) # c } }
    IN {p}
       \cup (IF Len(p) >= 1 /\ CharAt(p, Len(p)) = "Z" THEN {SubSeq(p, 1, Len(p) - 1)} ELSE {})
       \cup CutAtFirst("+")
       \cup (IF Len(p) > 14 THEN CutAtFirst("-") ELSE {})

\* C16: for every non-empty input, parse_pdf_date returns either a formatted
\* YYYY-MM-DD HH:MM:SS IST string or the input after the rewriting done before
\* the parse attempt (leading "D:" removed, then a trailing Z removed, or cut at
\* the first +, or cut at the first - when longer than 14 characters, or
\* nothing removed).
C16_DisplayOrRewrittenInput ==
    ParseDone =>
        /\ parse_out # None
        /\ IsDisplay(parse_out[1]) \/ parse_out[1] \in Rewritings(parse_in[1])

====
